---- MODULE Spec2Model ----
(***************************************************************************)
(* Model of the parse-result crate (src/src/lib.rs): the extension method  *)
(* Result<T, E>::parse::<F>() and the trait conformances of its error type *)
(* Error<E, P> (PartialEq, StdError::description, StdError::cause,         *)
(* Display::fmt).                                                          *)
(*                                                                         *)
(* Text is a sequence of one-character strings.  A rendered message is a   *)
(* sequence of tokens: the characters of a string, or the fixed message    *)
(* of a standard error as one token.                                       *)
(*                                                                         *)
(* Values are records with a "ty" field naming their Rust type:            *)
(*   text           [ty |-> "str", s |-> <<chars>>]                        *)
(*   integers       [ty |-> "u32", n |-> 42]                               *)
(*   IpAddr         [ty |-> "IpAddr", fam |-> "V6", groups |-> <<..>>]     *)
(*   std errors     [ty |-> "ParseIntError", kind |-> "Empty"] ...         *)
(*   f64            [ty |-> "f64", nan |-> FALSE, n |-> 1]                 *)
(*   Error<E, P>    [ty |-> "Error", tag |-> "OriginalErr", v |-> e]       *)
(*   Result<T, E>   [ok |-> TRUE, v |-> t] or [ok |-> FALSE, v |-> e]      *)
(***************************************************************************)
EXTENDS Integers, Sequences, FiniteSets, TLC

\* Longest text drawn for a success value or a textual failure value.
MaxLen == 4

\* The characters texts are built from: two decimal (and hexadecimal) digits,
\* both signs, a letter that is no digit in any radix used, and the IPv6
\* separator.
Chars == {"4", "2", "-", "+", "h", ":"}

RECURSIVE StringsOfLen(_)
StringsOfLen(n) ==
    IF n = 0 THEN {<<>>}
    ELSE {Append(s, c) : s \in StringsOfLen(n - 1), c \in Chars}

Strings == UNION {StringsOfLen(n) : n \in 0..MaxLen}

---------------------------------------------------------------------------
(* Result<T, E>                                                            *)

Ok(v) == [ok |-> TRUE, v |-> v]
Err(e) == [ok |-> FALSE, v |-> e]

\* Result::unwrap_or(d): Ok(t) => t, Err(_) => d
UnwrapOr(r, d) == IF r.ok THEN r.v ELSE d

---------------------------------------------------------------------------
(* The values of the types the crate is used with *)

Str(s) == [ty |-> "str", s |-> s]
Unit == [ty |-> "unit"]
IntVal(ty, n) == [ty |-> ty, n |-> n]
ParseIntError(kind) == [ty |-> "ParseIntError", kind |-> kind]
AddrParseError == [ty |-> "AddrParseError"]
VarError(kind) == [ty |-> "VarError", kind |-> kind]
\* An f64: NaN, or the number n.
F64(nan, n) == [ty |-> "f64", nan |-> nan, n |-> n]

\* T: AsRef<str>: the read-only text view of a success value.
AsRef(t) == t.s

\* enum Error<E, P> { OriginalErr(E), ParseFailure(P) }
OriginalErr(e) == [ty |-> "Error", tag |-> "OriginalErr", v |-> e]
ParseFailure(p) == [ty |-> "Error", tag |-> "ParseFailure", v |-> p]

\* r.map_err(OriginalErr): Ok(t) => Ok(t), Err(e) => Err(OriginalErr(e))
MapErrOriginalErr(r) == IF r.ok THEN r ELSE Err(OriginalErr(r.v))

\* r.map_err(ParseFailure): Ok(t) => Ok(t), Err(e) => Err(ParseFailure(e))
MapErrParseFailure(r) == IF r.ok THEN r ELSE Err(ParseFailure(r.v))

---------------------------------------------------------------------------
(* F: FromStr (lib.rs:43, 59): the target types' own parse operations, as  *)
(* the standard library defines them.  lib.rs:61 calls str::parse::<F>(),  *)
(* which is F::from_str.                                                   *)

\* The target types the crate's tests and documentation parse into (u32,
\* i64, i32, u16, IpAddr), and u8, the integer type narrow enough for a text
\* of MaxLen characters to overflow.
IntTypes == {"u8", "u16", "u32", "i32", "i64"}
TargetTypes == IntTypes \cup {"IpAddr"}

IsSigned(ty) == ty \in {"i32", "i64"}
SizeOf(ty) ==
    CASE ty = "u8" -> 1
      [] ty = "u16" -> 2
      [] ty \in {"u32", "i32"} -> 4
      [] ty = "i64" -> 8
MaxOf(ty) == IF IsSigned(ty) THEN 2 ^ (8 * SizeOf(ty) - 1) - 1 ELSE 2 ^ (8 * SizeOf(ty)) - 1
MinOf(ty) == IF IsSigned(ty) THEN -(2 ^ (8 * SizeOf(ty) - 1)) ELSE 0

\* char::to_digit(10); -1 stands for None.
DigitOf(c) ==
    CASE c = "0" -> 0 [] c = "1" -> 1 [] c = "2" -> 2 [] c = "3" -> 3
      [] c = "4" -> 4 [] c = "5" -> 5 [] c = "6" -> 6 [] c = "7" -> 7
      [] c = "8" -> 8 [] c = "9" -> 9 [] OTHER -> -1

\* char::to_digit(16); -1 stands for None.
HexOf(c) ==
    CASE DigitOf(c) >= 0 -> DigitOf(c)
      [] c \in {"a", "A"} -> 10 [] c \in {"b", "B"} -> 11
      [] c \in {"c", "C"} -> 12 [] c \in {"d", "D"} -> 13
      [] c \in {"e", "E"} -> 14 [] c \in {"f", "F"} -> 15
      [] OTHER -> -1

\* core::num: a text this short cannot overflow the type, whatever its digits.
CanNotOverflow(ty, digits) ==
    Len(digits) <= 2 * SizeOf(ty) - (IF IsSigned(ty) THEN 1 ELSE 0)

\* The digit loop of from_str_radix, radix 10: left to right, stopping at the
\* first character that is no digit or at the first step that leaves the type.
RECURSIVE FoldDigits(_, _, _, _, _)
FoldDigits(ty, digits, i, acc, positive) ==
    IF i > Len(digits) THEN Ok(IntVal(ty, acc))
    ELSE LET x == DigitOf(digits[i]) IN
         IF x < 0 THEN Err(ParseIntError("InvalidDigit"))
         ELSE IF CanNotOverflow(ty, digits)
         THEN FoldDigits(ty, digits, i + 1,
                         IF positive THEN acc * 10 + x ELSE acc * 10 - x, positive)
         ELSE IF positive
         THEN IF acc * 10 > MaxOf(ty) \/ acc * 10 + x > MaxOf(ty)
              THEN Err(ParseIntError("PosOverflow"))
              ELSE FoldDigits(ty, digits, i + 1, acc * 10 + x, positive)
         ELSE IF acc * 10 < MinOf(ty) \/ acc * 10 - x < MinOf(ty)
              THEN Err(ParseIntError("NegOverflow"))
              ELSE FoldDigits(ty, digits, i + 1, acc * 10 - x, positive)

\* <integer as FromStr>::from_str
IntFromStr(ty, src) ==
    IF src = <<>> THEN Err(ParseIntError("Empty"))
    ELSE IF Len(src) = 1 /\ src[1] \in {"+", "-"}
    THEN Err(ParseIntError("InvalidDigit"))
    ELSE IF src[1] = "+" THEN FoldDigits(ty, Tail(src), 1, 0, TRUE)
    ELSE IF src[1] = "-" /\ IsSigned(ty) THEN FoldDigits(ty, Tail(src), 1, 0, FALSE)
    ELSE FoldDigits(ty, src, 1, 0, TRUE)

\* The pieces of s between the occurrences of the character sep.
RECURSIVE Split(_, _)
Split(s, sep) ==
    IF \A i \in 1..Len(s) : s[i] # sep THEN <<s>>
    ELSE LET i == CHOOSE k \in 1..Len(s) :
                      s[k] = sep /\ \A j \in 1..(k - 1) : s[j] # sep
         IN <<SubSeq(s, 1, i - 1)>> \o Split(SubSeq(s, i + 1, Len(s)), sep)

RECURSIVE NumberOf(_, _, _, _)
NumberOf(g, radix, i, acc) ==
    IF i > Len(g) THEN acc
    ELSE NumberOf(g, radix, i + 1, acc * radix + HexOf(g[i]))

\* One 16-bit group of an IPv6 address: one to four hexadecimal digits.
IsHexGroup(g) == Len(g) \in 1..4 /\ \A i \in 1..Len(g) : HexOf(g[i]) >= 0

\* One octet of an IPv4 address: one to three decimal digits, at most 255,
\* no leading zero.
IsOctet(g) ==
    /\ Len(g) \in 1..3
    /\ \A i \in 1..Len(g) : DigitOf(g[i]) >= 0
    /\ (Len(g) > 1 => g[1] # "0")
    /\ NumberOf(g, 10, 1, 0) <= 255

\* The groups of a colon-separated run; the empty text is a run of no groups.
GroupsOf(s) == IF s = <<>> THEN <<>> ELSE Split(s, ":")
AllHexGroups(gs) == \A i \in 1..Len(gs) : IsHexGroup(gs[i])
Zeros(n) == [i \in 1..n |-> 0]

IpV4(octets) == [ty |-> "IpAddr", fam |-> "V4", groups |-> octets]
IpV6(groups) == [ty |-> "IpAddr", fam |-> "V6", groups |-> groups]

\* Parser::read_ipv4_addr, the whole text consumed.
Ipv4FromStr(s) ==
    LET parts == Split(s, ".") IN
    IF Len(parts) = 4 /\ \A i \in 1..4 : IsOctet(parts[i])
    THEN Ok(IpV4([i \in 1..4 |-> NumberOf(parts[i], 10, 1, 0)]))
    ELSE Err(AddrParseError)

\* Parser::read_ipv6_addr, the whole text consumed: eight groups, or a head
\* and a tail of at most seven groups together around one "::".  (The
\* dotted-quad tail of an IPv4-mapped address is not modelled: Chars holds
\* no ".".)
Ipv6FromStr(s) ==
    LET gaps == {i \in 1..(Len(s) - 1) : s[i] = ":" /\ s[i + 1] = ":"} IN
    IF gaps = {}
    THEN LET gs == GroupsOf(s) IN
         IF Len(gs) = 8 /\ AllHexGroups(gs)
         THEN Ok(IpV6([i \in 1..8 |-> NumberOf(gs[i], 16, 1, 0)]))
         ELSE Err(AddrParseError)
    ELSE LET at == CHOOSE i \in gaps : \A j \in gaps : i <= j
             head == GroupsOf(SubSeq(s, 1, at - 1))
             tail == GroupsOf(SubSeq(s, at + 2, Len(s)))
         IN IF AllHexGroups(head) /\ AllHexGroups(tail) /\ Len(head) + Len(tail) <= 7
            THEN Ok(IpV6([i \in 1..Len(head) |-> NumberOf(head[i], 16, 1, 0)]
                         \o Zeros(8 - Len(head) - Len(tail))
                         \o [i \in 1..Len(tail) |-> NumberOf(tail[i], 16, 1, 0)]))
            ELSE Err(AddrParseError)

\* <IpAddr as FromStr>::from_str: an IPv4 address, or else an IPv6 address.
IpAddrFromStr(s) == IF Ipv4FromStr(s).ok THEN Ipv4FromStr(s) ELSE Ipv6FromStr(s)

\* F::from_str(s)
FromStr(F, s) == IF F = "IpAddr" THEN IpAddrFromStr(s) ELSE IntFromStr(F, s)

---------------------------------------------------------------------------
(* The conformances of the wrapped failure types (standard library)        *)

None == [some |-> FALSE]
Some(x) == [some |-> TRUE, v |-> x]

StdErrorTypes == {"ParseIntError", "AddrParseError", "VarError"}
DisplayTypes == StdErrorTypes \cup {"str", "f64"}

\* StdError::description of the standard errors: one fixed message each.
StdDescription(e) ==
    CASE e.ty = "ParseIntError" ->
           (CASE e.kind = "Empty" -> <<"cannot parse integer from empty string">>
              [] e.kind = "InvalidDigit" -> <<"invalid digit found in string">>
              [] e.kind = "PosOverflow" -> <<"number too large to fit in target type">>
              [] e.kind = "NegOverflow" -> <<"number too small to fit in target type">>)
      [] e.ty = "AddrParseError" -> <<"invalid IP address syntax">>
      [] e.ty = "VarError" ->
           (CASE e.kind = "NotPresent" -> <<"environment variable not found">>
              [] e.kind = "NotUnicode" -> <<"environment variable was not valid unicode">>)

\* Display::fmt of the wrapped types: a text is written as it is, a standard
\* error writes its message, and VarError::NotUnicode adds the offending value.
StdDisplay(e) ==
    CASE e.ty = "str" -> e.s
      [] e.ty = "f64" -> IF e.nan THEN <<"NaN">> ELSE <<"1">>
      [] e.ty = "VarError" /\ e.kind = "NotUnicode" ->
           <<"environment variable was not valid unicode: ", "\"\\xFF\"">>
      [] OTHER -> StdDescription(e)

---------------------------------------------------------------------------
(* Error<E, P>: lib.rs:46-54, 65-90                                        *)

\* A hand-written eq that compares the wrapped values and forgets the variant.
ErrorEqIgnoreTag(a, b) == a.v.ty = b.v.ty /\ a.v = b.v

RECURSIVE ErrorEq(_, _)

\* E::eq and P::eq, the wrapped types' own PartialEq: the same value, but for
\* f64, where NaN equals nothing, itself included.
WrappedEq(x, y) ==
    CASE x.ty = "f64" -> ~x.nan /\ ~y.nan /\ x.n = y.n
      [] x.ty = "Error" -> ErrorEq(x, y)
      [] OTHER -> x = y

\* #[derive(PartialEq, Eq)]: the same variant, and equal wrapped values.
ErrorEq(a, b) ==
    CASE a.tag = "OriginalErr" /\ b.tag = "OriginalErr" -> WrappedEq(a.v, b.v)
      [] a.tag = "ParseFailure" /\ b.tag = "ParseFailure" -> WrappedEq(a.v, b.v)
      [] OTHER -> FALSE

\* where E: StdError, P: StdError (the bound of lib.rs:66), for the variant
\* that is populated
RECURSIVE IsStdError(_)
IsStdError(e) == IF e.ty = "Error" THEN IsStdError(e.v) ELSE e.ty \in StdErrorTypes

\* where E: Display, P: Display (the bound of lib.rs:83)
RECURSIVE IsDisplay(_)
IsDisplay(e) == IF e.ty = "Error" THEN IsDisplay(e.v) ELSE e.ty \in DisplayTypes

\* StdError::description
RECURSIVE Description(_)
Description(e) ==
    IF e.ty = "Error"
    THEN CASE e.tag = "OriginalErr" -> Description(e.v)
           [] e.tag = "ParseFailure" -> Description(e.v)
    ELSE StdDescription(e)

\* A fmt that names the stage that failed before the wrapped value's text.
RECURSIVE DisplayTagged(_)
DisplayTagged(e) ==
    IF e.ty = "Error"
    THEN CASE e.tag = "OriginalErr" -> DisplayTagged(e.v)
           [] e.tag = "ParseFailure" -> <<"parse failure: ">> \o DisplayTagged(e.v)
    ELSE StdDisplay(e)

\* Display::fmt: what is written to the formatter
RECURSIVE Display(_)
Display(e) ==
    IF e.ty = "Error"
    THEN CASE e.tag = "OriginalErr" -> Display(e.v)
           [] e.tag = "ParseFailure" -> Display(e.v)
    ELSE StdDisplay(e)

\* A cause that reports only the parse stage's error.
CauseOnlyParseFailure(e) ==
    IF e.ty = "Error" /\ e.tag = "ParseFailure" THEN Some(e.v) ELSE None

\* StdError::cause; the standard errors keep the default, None.
Cause(e) ==
    IF e.ty = "Error"
    THEN CASE e.tag = "OriginalErr" -> Some(e.v)
           [] e.tag = "ParseFailure" -> Some(e.v)
    ELSE None

\* The errors a walk of the cause chain visits after e.
RECURSIVE CauseChain(_)
CauseChain(e) ==
    IF Cause(e).some THEN <<Cause(e).v>> \o CauseChain(Cause(e).v) ELSE <<>>

---------------------------------------------------------------------------
(* The inputs the operations are exercised with                            *)

IntErrorKinds == {"Empty", "InvalidDigit", "PosOverflow", "NegOverflow"}
VarErrorKinds == {"NotPresent", "NotUnicode"}

\* The success values: texts (T = &str at lib.rs:94, String at lib.rs:143).
TValues == {Str(s) : s \in Strings}

\* The failure values: E = &str (lib.rs:118), () (lib.rs:94), VarError
\* (lib.rs:143), and, E being unconstrained, the parse errors themselves, an
\* Error<E, P> of an earlier parse, and f64 (1.0 and NaN).
EValues ==
    {Str(s) : s \in Strings}
    \cup {Unit}
    \cup {VarError(k) : k \in VarErrorKinds}
    \cup {ParseIntError(k) : k \in IntErrorKinds}
    \cup {AddrParseError}
    \cup {F64(FALSE, 1), F64(TRUE, 0)}
    \cup {OriginalErr(VarError("NotPresent")),
          ParseFailure(ParseIntError("InvalidDigit")),
          OriginalErr(Str(<<"4", "2">>))}

Inputs == {Ok(t) : t \in TValues} \cup {Err(e) : e \in EValues}

\* F::Err, the values of the target type's parse error
PErrors(F) ==
    IF F = "IpAddr" THEN {AddrParseError}
    ELSE {ParseIntError(k) : k \in IntErrorKinds}

\* Values of the type of e to compare e with
SameTyped(e) ==
    CASE e.ty = "str" -> {e, Str(<<>>), Str(<<"4", "2">>)}
      [] e.ty = "unit" -> {Unit}
      [] e.ty = "VarError" -> {VarError(k) : k \in VarErrorKinds}
      [] e.ty = "ParseIntError" -> {ParseIntError(k) : k \in IntErrorKinds}
      [] e.ty = "AddrParseError" -> {AddrParseError}
      [] e.ty = "f64" -> {F64(FALSE, 1), F64(TRUE, 0)}
      [] e.ty = "Error" -> {OriginalErr(e.v), ParseFailure(e.v)}

\* The values of Error<E, F::Err> an error returned by parse::<F> can be
\* compared with: E is the type of the wrapped value of an OriginalErr, and
\* is taken to be F::Err (E = P) for a ParseFailure.
Comparable(err, F) ==
    {ParseFailure(p) : p \in PErrors(F)}
    \cup (IF err.tag = "OriginalErr"
          THEN {OriginalErr(x) : x \in SameTyped(err.v)}
          ELSE {OriginalErr(x) : x \in PErrors(F)})

\* The fallback values of unwrap_or (3000 at lib.rs:15, 18), within u8
Defaults(F) ==
    IF F = "IpAddr" THEN {IpV6(Zeros(8))}
    ELSE {IntVal(F, 0), IntVal(F, 42)}

---------------------------------------------------------------------------
(* Result<T, E>::parse::<F>(), lib.rs:56-63                                *)

\* A closure that parses into one fixed type instead of F.
ParseClosureFixedType(F, s) == MapErrParseFailure(FromStr("u32", AsRef(s)))

\* A closure that tags the parse error as the original one.
ParseClosureOriginalTag(F, s) == MapErrOriginalErr(FromStr(F, AsRef(s)))

\* A closure that recovers from a parse error with the type's zero value.
ParseClosureLossy(F, s) ==
    IF FromStr(F, AsRef(s)).ok THEN FromStr(F, AsRef(s))
    ELSE Ok(IF F = "IpAddr" THEN IpV6(Zeros(8)) ELSE IntVal(F, 0))

\* A closure that unwraps the parsed value, and so panics on a parse error.
ParseClosureUnwrap(F, s) ==
    IF FromStr(F, AsRef(s)).ok THEN FromStr(F, AsRef(s))
    ELSE [ok |-> FALSE, panicked |-> TRUE]

\* |s| s.as_ref().parse().map_err(ParseFailure)
ParseClosure(F, s) == MapErrParseFailure(FromStr(F, AsRef(s)))

\* r.and_then(|s| ...): Ok(s) => the closure's result on s, Err(e) => Err(e)
AndThenParse(r, F) == IF r.ok THEN ParseClosure(F, r.v) ELSE r

\* r.map(|s| s.parse().unwrap_or(d)) (lib.rs:15): Ok(s) => Ok of the
\* closure's value, Err(e) => Err(e)
MapParseUnwrapOr(r, F, d) ==
    IF r.ok THEN Ok(UnwrapOr(FromStr(F, AsRef(r.v)), d)) ELSE r

\* try!(r) inside a function returning Result<_, Box<Error>>, wrapped in Ok
\* (lib.rs:142-144)
Boxed(e) == [ty |-> "Box", v |-> e]
TryOk(r) == IF r.ok THEN Ok(r.v) ELSE Err(Boxed(r.v))

VARIABLES
    pc,       \* where the caller is: "idle", inside parse ("map_err",
              \* "and_then"), holding its result ("returned"), or having
              \* used the result ("observed")
    input,    \* self, the Result<T, E> parse was called on
    target,   \* F, the target type of the call
    cur,      \* the value flowing through the method chain of lib.rs:60-61
    parsed,   \* the texts F::from_str was invoked on during the call, in order
    obs       \* what the caller last did with the returned value

vars == <<pc, input, target, cur, parsed, obs>>

Nil == [nil |-> TRUE]
NoObs == [kind |-> "none"]

Init ==
    /\ pc = "idle"
    /\ input = Nil
    /\ target = "none"
    /\ cur = Nil
    /\ parsed = <<>>
    /\ obs = NoObs

\* The caller invokes r.parse::<F>().
Call ==
    /\ pc = "idle"
    /\ \E r \in Inputs, F \in TargetTypes :
          /\ input' = r
          /\ target' = F
          /\ cur' = r
    /\ pc' = "map_err"
    /\ parsed' = <<>>
    /\ obs' = NoObs

\* A first step that tags the original failure as a parse failure.
MapErrStepParseFailure ==
    /\ pc = "map_err"
    /\ cur' = MapErrParseFailure(cur)
    /\ pc' = "and_then"
    /\ UNCHANGED <<input, target, parsed, obs>>

\* lib.rs:60: self.map_err(OriginalErr)
MapErrStep ==
    /\ pc = "map_err"
    /\ cur' = MapErrOriginalErr(cur)
    /\ pc' = "and_then"
    /\ UNCHANGED <<input, target, parsed, obs>>

\* A second step that parses the text once more when the first attempt fails.
AndThenStepRetry ==
    /\ pc = "and_then"
    /\ cur' = AndThenParse(cur, target)
    /\ parsed' = IF ~cur.ok THEN parsed
                 ELSE IF FromStr(target, AsRef(cur.v)).ok
                 THEN Append(parsed, AsRef(cur.v))
                 ELSE parsed \o <<AsRef(cur.v), AsRef(cur.v)>>
    /\ pc' = "returned"
    /\ UNCHANGED <<input, target, obs>>

\* lib.rs:61: .and_then(|s| s.as_ref().parse().map_err(ParseFailure)); the
\* closure, and with it F::from_str, runs only on an Ok value.
AndThenStep ==
    /\ pc = "and_then"
    /\ cur' = AndThenParse(cur, target)
    /\ parsed' = IF cur.ok THEN Append(parsed, AsRef(cur.v)) ELSE parsed
    /\ pc' = "returned"
    /\ UNCHANGED <<input, target, obs>>

\* lib.rs:18: .unwrap_or(d) on the returned value, beside the two-step form
\* of lib.rs:15 on the same input
UnwrapOrStep ==
    /\ pc = "returned"
    /\ \E d \in Defaults(target) : obs' = [kind |-> "unwrap_or", d |-> d,
               chained |-> UnwrapOr(cur, d),
               twoStep |-> UnwrapOr(MapParseUnwrapOr(input, target, d), d)]
    /\ pc' = "observed"
    /\ UNCHANGED <<input, target, cur, parsed>>

\* lib.rs:142-144: Ok(try!(env::var("PORT").parse())) in get_port
GetPort ==
    /\ pc = "returned"
    /\ target = "u16"
    /\ input.ok \/ input.v.ty = "VarError"
    /\ obs' = [kind |-> "get_port", out |-> TryOk(cur)]
    /\ pc' = "observed"
    /\ UNCHANGED <<input, target, cur, parsed>>

\* lib.rs:67-72: description() on the returned error
DescriptionStep ==
    /\ pc = "returned"
    /\ ~cur.ok
    /\ IsStdError(cur.v)
    /\ obs' = [kind |-> "description", out |-> Description(cur.v)]
    /\ pc' = "observed"
    /\ UNCHANGED <<input, target, cur, parsed>>

\* lib.rs:84-89: the returned error written with "{}"
FmtStep ==
    /\ pc = "returned"
    /\ ~cur.ok
    /\ IsDisplay(cur.v)
    /\ obs' = [kind |-> "fmt", out |-> Display(cur.v)]
    /\ pc' = "observed"
    /\ UNCHANGED <<input, target, cur, parsed>>

\* lib.rs:74-79: cause() on the returned error, and the walk of the chain
CauseStep ==
    /\ pc = "returned"
    /\ ~cur.ok
    /\ IsStdError(cur.v)
    /\ obs' = [kind |-> "cause", out |-> Cause(cur.v), chain |-> CauseChain(cur.v)]
    /\ pc' = "observed"
    /\ UNCHANGED <<input, target, cur, parsed>>

\* lib.rs:47: the returned error compared with another error (assert_eq! at
\* lib.rs:120)
EqStep ==
    /\ pc = "returned"
    /\ ~cur.ok
    /\ \E other \in Comparable(cur.v, target) : obs' = [kind |-> "eq", other |-> other,
               out |-> ErrorEq(cur.v, other), back |-> ErrorEq(other, cur.v)]
    /\ pc' = "observed"
    /\ UNCHANGED <<input, target, cur, parsed>>

\* The caller drops the result.
Drop ==
    /\ pc \in {"returned", "observed"}
    /\ pc' = "idle"
    /\ input' = Nil
    /\ target' = "none"
    /\ cur' = Nil
    /\ parsed' = <<>>
    /\ obs' = NoObs

Next ==
    \/ Call
    \/ MapErrStep
    \/ AndThenStep
    \/ UnwrapOrStep
    \/ GetPort
    \/ DescriptionStep
    \/ FmtStep
    \/ CauseStep
    \/ EqStep
    \/ Drop

Spec == Init /\ [][Next]_vars

---------------------------------------------------------------------------
(* Properties                                                              *)

\* parse has returned, and cur is what it returned.
Returned == pc \in {"returned", "observed"}

\* What the target type's own parse operation gives for the input's text.
Canonical == FromStr(target, AsRef(input.v))

Text42 == <<"4", "2">>

\* C1: a failure input Err(e) comes back as exactly Err(OriginalErr(e)), for
\* every target type, whether or not e is parseable text.
C1_OriginalErrCarried ==
    (Returned /\ ~input.ok) => cur = Err(OriginalErr(input.v))

\* A failure whose value is the text "42" has been parsed into u32.
C1_Witness ==
    /\ pc = "returned"
    /\ input = Err(Str(Text42))
    /\ target = "u32"
    /\ cur = Err(OriginalErr(Str(Text42)))

\* C2: a success input whose text parses into F comes back as Ok(f), f being
\* the value F's own parse operation gives for that text, of type F; "42"
\* gives 42 as u32 and as i64.
C2_OkIsCanonical ==
    /\ (Returned /\ input.ok /\ Canonical.ok) =>
           /\ cur = Ok(Canonical.v)
           /\ cur.v.ty = target
    /\ (Returned /\ input = Ok(Str(Text42)) /\ target \in {"u32", "i64"}) =>
           cur = Ok(IntVal(target, 42))

\* "42" has been parsed into i64.
C2_Witness ==
    /\ pc = "returned"
    /\ input = Ok(Str(Text42))
    /\ target = "i64"
    /\ cur = Ok(IntVal("i64", 42))

\* C3: a success input whose text does not parse into F comes back as
\* Err(ParseFailure(p)), p being the error F's own parse operation gives for
\* that text; "42" fails as IpAddr with the address-parse error, and "h" as
\* i32 with the integer-parse error.
C3_ParseFailureWraps ==
    /\ (Returned /\ input.ok /\ ~Canonical.ok) =>
           cur = Err(ParseFailure(Canonical.v))
    /\ (Returned /\ input = Ok(Str(Text42)) /\ target = "IpAddr") =>
           cur = Err(ParseFailure(AddrParseError))
    /\ (Returned /\ input = Ok(Str(<<"h">>)) /\ target = "i32") =>
           cur = Err(ParseFailure(ParseIntError("InvalidDigit")))

\* "42" has been parsed into IpAddr and failed.
C3_Witness ==
    /\ pc = "returned"
    /\ input = Ok(Str(Text42))
    /\ target = "IpAddr"
    /\ ~cur.ok
    /\ cur.v.tag = "ParseFailure"

\* C4 as stated: two errors are equal exactly when their variants agree and
\* their wrapped values are equal; so errors of different variants are
\* unequal even around the same value, and equality is reflexive, symmetric
\* and transitive.
C4_AsStated ==
    obs.kind = "eq" =>
        /\ obs.out = (cur.v.tag = obs.other.tag /\ WrappedEq(cur.v.v, obs.other.v))
        /\ (cur.v.tag # obs.other.tag => ~obs.out)
        /\ ErrorEq(cur.v, cur.v)
        /\ obs.back = obs.out
        /\ \A c \in Comparable(cur.v, target) :
               (obs.out /\ ErrorEq(obs.other, c)) => ErrorEq(cur.v, c)

\* C4, amended: two errors are equal exactly when their variants agree and
\* their wrapped values are equal; so errors of different variants are
\* unequal even around the same value, equality is symmetric and transitive,
\* and an error equals itself exactly when its wrapped value equals itself.
C4_EqIsStructural ==
    obs.kind = "eq" =>
        /\ obs.out = (cur.v.tag = obs.other.tag /\ WrappedEq(cur.v.v, obs.other.v))
        /\ (cur.v.tag # obs.other.tag => ~obs.out)
        /\ ErrorEq(cur.v, cur.v) <=> WrappedEq(cur.v.v, cur.v.v)
        /\ obs.back = obs.out
        /\ \A c \in Comparable(cur.v, target) :
               (obs.out /\ ErrorEq(obs.other, c)) => ErrorEq(cur.v, c)

\* An OriginalErr has been compared with a ParseFailure of the same value.
C4_Witness ==
    /\ obs.kind = "eq"
    /\ cur.v.tag = "OriginalErr"
    /\ obs.other.tag = "ParseFailure"
    /\ cur.v.v = obs.other.v
    /\ ~obs.out

\* An OriginalErr around NaN has been compared with itself.
C4_WitnessNaN ==
    /\ obs.kind = "eq"
    /\ cur.v = OriginalErr(F64(TRUE, 0))
    /\ obs.other = cur.v
    /\ ~obs.out

\* C5: description() and fmt of an error give exactly what the wrapped value
\* gives, for both variants; so an OriginalErr and a ParseFailure whose
\* wrapped values render alike render alike.
C5_RenderingDelegates ==
    /\ obs.kind = "description" => obs.out = Description(cur.v.v)
    /\ obs.kind = "fmt" =>
           /\ obs.out = Display(cur.v.v)
           /\ \A o \in Comparable(cur.v, target) :
                  Display(o.v) = Display(cur.v.v) => Display(o) = obs.out

\* A ParseFailure has been written whose text an OriginalErr writes too.
C5_Witness ==
    /\ obs.kind = "fmt"
    /\ cur.v.tag = "ParseFailure"
    /\ \E o \in Comparable(cur.v, target) :
           o.tag = "OriginalErr" /\ Display(o) = obs.out

\* C6: cause() of an error of either variant is present and is the wrapped
\* value; a walk of the cause chain reaches the wrapped value first and goes
\* on with the wrapped value's own chain.
C6_CauseIsWrapped ==
    obs.kind = "cause" =>
        /\ obs.out = Some(cur.v.v)
        /\ obs.chain = <<cur.v.v>> \o CauseChain(cur.v.v)

\* The cause of an OriginalErr around an earlier parse's error has been
\* asked for: the chain goes on past the wrapped value.
C6_Witness ==
    /\ obs.kind = "cause"
    /\ cur.v.tag = "OriginalErr"
    /\ cur.v.v.ty = "Error"
    /\ Len(obs.chain) = 2

\* C6 for the other variant: the cause of a ParseFailure has been asked for.
C6_WitnessParseFailure ==
    /\ obs.kind = "cause"
    /\ cur.v.tag = "ParseFailure"
    /\ obs.out = Some(cur.v.v)

\* C7: r.parse::<F>().unwrap_or(d) equals
\* r.map(|s| s.parse::<F>().unwrap_or(d)).unwrap_or(d): the parsed value when
\* r is Ok and its text parses, d otherwise.
C7_ChainedEqualsTwoStep ==
    obs.kind = "unwrap_or" =>
        /\ obs.chained = obs.twoStep
        /\ obs.chained = IF input.ok /\ Canonical.ok THEN Canonical.v ELSE obs.d

\* The default 42 has replaced a parse failure.
C7_Witness ==
    /\ obs.kind = "unwrap_or"
    /\ input.ok
    /\ ~Canonical.ok
    /\ obs.d = IntVal(target, 42)
    /\ obs.chained = obs.d

\* C8: a call of parse runs on until it returns, and what it returns is one
\* of Ok(v) with v of type F, Err(OriginalErr(e)) and Err(ParseFailure(p))
\* with p an error of F's parse operation; nothing else.
C8_TotalThreeOutcomes ==
    /\ pc \in {"map_err", "and_then"} => ENABLED (MapErrStep \/ AndThenStep)
    /\ Returned =>
           /\ DOMAIN cur = {"ok", "v"}
           /\ cur.ok => cur.v.ty = target
           /\ ~cur.ok =>
                  /\ cur.v.ty = "Error"
                  /\ cur.v.tag \in {"OriginalErr", "ParseFailure"}
                  /\ cur.v.tag = "OriginalErr" => cur.v.v \in EValues
                  /\ cur.v.tag = "ParseFailure" => cur.v.v \in PErrors(target)

\* A text that overflows u8 has come back as a ParseFailure.
C8_Witness ==
    /\ pc = "returned"
    /\ target = "u8"
    /\ cur = Err(ParseFailure(ParseIntError("PosOverflow")))

\* C9: the result is Ok exactly when the input is Ok and its text parses;
\* and get_port fails, with the error parse returned in the box, whenever the
\* lookup failed or the text did not parse.
C9_NoFailureHidden ==
    /\ Returned => (cur.ok <=> (input.ok /\ Canonical.ok))
    /\ obs.kind = "get_port" =>
           /\ ~obs.out.ok <=> (~input.ok \/ ~Canonical.ok)
           /\ ~obs.out.ok => obs.out.v = Boxed(cur.v)
           /\ obs.out.ok => obs.out.v = Canonical.v

\* get_port has run with PORT unset.
C9_Witness ==
    /\ obs.kind = "get_port"
    /\ input = Err(VarError("NotPresent"))
    /\ obs.out = Err(Boxed(OriginalErr(VarError("NotPresent"))))

\* C10: F's parse operation is not invoked before the step that follows the
\* inspection of the tag; over the whole call it is invoked no times on a
\* failure input and once, on the text of the success value, on a success
\* input.
C10_ParseInvokedOnceOrNever ==
    /\ pc \in {"map_err", "and_then"} => parsed = <<>>
    /\ Returned => parsed = IF input.ok THEN <<AsRef(input.v)>> ELSE <<>>

\* A text that does not parse has been parsed once.
C10_Witness ==
    /\ pc = "returned"
    /\ input.ok
    /\ ~Canonical.ok
    /\ parsed = <<AsRef(input.v)>>

\* C10 for a failure input: parse has returned without an invocation.
C10_WitnessErr ==
    /\ pc = "returned"
    /\ input = Err(Str(<<"4">>))
    /\ parsed = <<>>

====
